---- MODULE Spec2Model ----
(***************************************************************************)
(* Snippet lifecycle of do-bot: BotEngine (core/bot_engine.py) with the    *)
(* module-level dictionary snippet_storage, the request handlers that      *)
(* propose / confirm / cancel / extend a generated snippet, and the two    *)
(* daemon threads (_snippet_watchdog, _cleanup_expired_snippets).          *)
(*                                                                         *)
(* Time is counted in whole minutes since process start.  Handlers and the *)
(* two daemon threads are Python threads sharing snippet_storage without   *)
(* any lock, so _apply_typed_action is cut into steps at the points where  *)
(* it reads or writes the shared dictionary or one of its entries; a pass  *)
(* of a daemon loop is one step.                                           *)
(*                                                                         *)
(* modules/snippet_manager.py holds a line-for-line copy of the same       *)
(* lifecycle (propose_snippet, handle_typed_command, _apply_snippet_action,*)
(* and the two loops) over its own snippet_storage; what is shown here for *)
(* the BotEngine copy applies to that copy as well.                        *)
(***************************************************************************)
EXTENDS Integers, Sequences, FiniteSets, TLC

(***************************************************************************)
(* Bounds of the exploration.                                              *)
(***************************************************************************)
MaxTime == 3      \* the clock stops here
MaxSnippets == 2  \* snippets proposed in a run with one request at a time
MaxRaced == 1     \* snippets proposed in a run with concurrent requests
MaxExtends == 3   \* extend commands accepted per snippet
MaxRuns == 3      \* calls of run_snippet_now in a run
MaxDeliveries == 2  \* an event id is delivered again until it was dispatched this often
MaxDefaultTime == 181    \* the clock stops here under the shipped configuration
MaxDefaultExtends == 35  \* extend commands accepted per snippet under the shipped configuration

Threads == {"h1", "h2"}
Destinations == { [channel |-> "C1", thread_ts |-> "T1"],
                  [channel |-> "C1", thread_ts |-> "T2"] }

(***************************************************************************)
(* bot_config (core/configs.py).  DefaultConfig carries the shipped        *)
(* values; ShortConfig is a deployment that shortens the expiry window and *)
(* the watchdog's hard timeout so that they are reached within MaxTime.    *)
(***************************************************************************)
DefaultConfig ==
    [ snippet_expiration_minutes |-> 5,
      snippet_line_limit |-> 250,
      snippet_watchdog_seconds |-> 60,
      admin_watchdog_timeout_seconds |-> 10800,
      force_bot_termination_on_snippet_freeze |-> TRUE ]

ShortConfig ==
    [ snippet_expiration_minutes |-> 1,
      snippet_line_limit |-> 250,
      snippet_watchdog_seconds |-> 60,
      admin_watchdog_timeout_seconds |-> 120,
      force_bot_termination_on_snippet_freeze |-> TRUE ]

\* ShortConfig with the forced termination switched off
NoForceConfig ==
    [ShortConfig EXCEPT !.force_bot_termination_on_snippet_freeze = FALSE]

\* ShortConfig without the key force_bot_termination_on_snippet_freeze
UnsetConfig ==
    [ snippet_expiration_minutes |-> 1,
      snippet_line_limit |-> 250,
      snippet_watchdog_seconds |-> 60,
      admin_watchdog_timeout_seconds |-> 120 ]

Configs == {ShortConfig, NoForceConfig, UnsetConfig}

\* the second arguments of the bot_config.get calls of bot_engine.py
ConfigDefaults ==
    [ snippet_expiration_minutes |-> 5,
      snippet_line_limit |-> 250,
      snippet_watchdog_seconds |-> 10,
      admin_watchdog_timeout_seconds |-> 3600,
      force_bot_termination_on_snippet_freeze |-> TRUE ]

\* timedelta(minutes=5) of the extend branch
ExtendMinutes == 5

VARIABLES
    bot_config,       \* the configuration dictionary
    now,              \* datetime.utcnow(), in minutes
    snippet_storage,  \* keys of the dictionary snippet_storage
    entries,          \* the entry dictionaries still referenced, by snippet id
    next_id,          \* next fresh snippet id (uuid4)
    pc,               \* position of each request-handler thread
    h,                \* locals of each request-handler thread
    terminated,       \* os._exit(1) was called
    executed,         \* per snippet id: times the snippet callable was run
    notices,          \* per snippet id: messages posted about it, by kind
    too_large,        \* destinations that were sent a "Snippet too large" message
    classifier_conversation,  \* the last assistant message of the classifier's conversation
    log,              \* the records the watchdog wrote with logger.error
    ran,              \* the snippet texts handed to create_snippet_callable, by snippet id
    raised,           \* snippet ids whose handler was left by an exception
    wd,               \* locals of the watchdog thread: its `now` and the list it iterates
    sys_stdout,       \* sys.stdout: the stream object installed
    runner,           \* locals of each run_snippet_now call in progress
    next_stream,      \* next fresh io.StringIO object
    written,          \* per stream: the threads whose snippet printed to it
    processed_event_ids,  \* the set processed_event_ids of slack_service.py
    route,            \* locals of each slack_events request in progress
    dispatched,       \* per event id: calls of handle_incoming_slack_event
    PENDING_UPGRADES, \* the dictionary PENDING_UPGRADES of the self-upgrade plugin
    merged            \* the merges into main: requester and approver

\* the state of BotEngine and its request handlers
engine_vars == << bot_config, now, snippet_storage, entries, next_id, pc, h,
                  terminated, executed, notices, too_large,
                  classifier_conversation, log, ran, raised >>

\* the state of SnippetsRunner.run_snippet_now
stdout_vars == << sys_stdout, runner, next_stream, written >>

\* the state of the route /slack/events
event_vars == << processed_event_ids, route, dispatched >>

\* the state of the self-upgrade plugin
upgrade_vars == << PENDING_UPGRADES, merged >>

\* what the bot engine's handlers and daemons never touch
beside == << stdout_vars, event_vars, upgrade_vars >>

vars == << engine_vars, wd, beside >>

(***************************************************************************)
(* Inputs.                                                                 *)
(*                                                                         *)
(* A message text is its non-blank core written in lower case (word), a    *)
(* flag telling whether the original has upper-case letters, and flags     *)
(* telling whether whitespace precedes / follows the core.  The text of an  *)
(* app_mention event carries the mention of the bot, "<@bot> confirm".     *)
(***************************************************************************)
Text(word, upper, lead, trail) ==
    [word |-> word, upper |-> upper, lead |-> lead, trail |-> trail]

Texts == { Text("confirm", FALSE, FALSE, FALSE),
           Text("confirm", TRUE, TRUE, TRUE),
           Text("cancel", FALSE, FALSE, FALSE),
           Text("extend", FALSE, FALSE, FALSE),
           Text("please deploy the fix", FALSE, FALSE, FALSE),
           Text("confirm please", FALSE, FALSE, FALSE),
           Text("<@bot> confirm", FALSE, FALSE, FALSE) }

\* str.strip()
StripText(text) == [text EXCEPT !.lead = FALSE, !.trail = FALSE]

\* str.lower()
LowerText(text) == [text EXCEPT !.upper = FALSE]

\* the list ["confirm","cancel","extend"]
Commands == { Text("confirm", FALSE, FALSE, FALSE),
              Text("cancel", FALSE, FALSE, FALSE),
              Text("extend", FALSE, FALSE, FALSE) }

RequestTypes == {"ASKTHEBOT", "CODER", "ASKTHEWORLD"}

(***************************************************************************)
(* The language model behind ChatGPTService.  A call of                    *)
(* openai.ChatCompletion.create raises or returns a content.  For the      *)
(* classifier the content is what json.loads makes of it: no JSON at all,  *)
(* a JSON value that is not an object, or an object, written as the        *)
(* function from its keys; the value "{}" of extra_data stands for any     *)
(* JSON object, "text" for any JSON string.                                *)
(***************************************************************************)
Raises == [raises |-> TRUE]
Returns(content) == [raises |-> FALSE, content |-> content]

Unparsable == [json |-> "invalid"]
JsonArray == [json |-> "array"]
JsonObject(value) == [json |-> "object", value |-> value]

\* the classifications that name one of the three request types
ValidReplies == { Returns(JsonObject([request_type |-> r])) : r \in RequestTypes }

\* the call fails, or the content is no JSON, not an object, lacks the
\* request type, names an unknown one, or carries an extra_data that is no object
FailedReplies ==
    { Raises,
      Returns(Unparsable),
      Returns(JsonArray),
      Returns(JsonObject([role_info |-> "default"])),
      Returns(JsonObject([request_type |-> "SMALLTALK"])),
      Returns(JsonObject([request_type |-> "CODER", extra_data |-> "text"])) }

ClassifierReplies == ValidReplies \cup FailedReplies

\* the reply that asks for the coder flow
CoderReply == Returns(JsonObject([request_type |-> "CODER"]))

\* dict.get(key, default)
Get(dict, key, default) == IF key \in DOMAIN dict THEN dict[key] ELSE default

\* ChatGPTService.classify_chat: the content, or the literal of line 35
ClassifyChat(reply) ==
    IF reply.raises
    THEN JsonObject([request_type |-> "ASKTHEWORLD", role_info |-> "default",
                     extra_data |-> "{}"])
    ELSE reply.content

\* self.classifier_conversation before the first classification
NoMessage == ""

\* lines 91-102 of handle_classification: the fallback and the assistant
\* message appended with it
ErrorFallback ==
    [request_type |-> "ASKTHEWORLD", assistant |-> "Error fallback => ASKTHEWORLD"]

\* ClassificationManager.handle_classification, lines 57-102: the
\* request_type of the dictionary returned and the assistant message
\* appended to the conversation (final_json, written as its request_type).
\* json.loads raises on a text that is no JSON, result.get on a value that
\* is no object, extra_data.get (line 70, CODER only) on an extra_data that
\* is no object; each lands in the except clause.
HandleClassification(raw_gpt_response) ==
    IF raw_gpt_response.json # "object" THEN ErrorFallback
    ELSE LET result == raw_gpt_response.value
             request_type == Get(result, "request_type", "ASKTHEWORLD")
             extra_data == Get(result, "extra_data", "{}")
         IN IF request_type = "CODER" /\ extra_data # "{}"
            THEN ErrorFallback
            ELSE [request_type |-> request_type, assistant |-> request_type]

\* a dispatch whose last branch is the coder flow
FlowCoderElse(req_type) ==
    IF req_type = "ASKTHEBOT" THEN "askthebot"
    ELSE IF req_type = "ASKTHEWORLD" THEN "asktheworld"
    ELSE "coder"

\* bot_engine.py lines 70-75: the flow a request type is dispatched to
Flow(req_type) ==
    IF req_type = "ASKTHEBOT" THEN "askthebot"
    ELSE IF req_type = "CODER" THEN "coder"
    ELSE "asktheworld"

(***************************************************************************)
(* A snippet source text is a sequence of runs of lines; a run is n        *)
(* consecutive lines that are all whitespace-only ("blank") or all         *)
(* non-blank ("code").  The lines of the text are joined by "\n".          *)
(***************************************************************************)
Run(kind, n) == [kind |-> kind, n |-> n]

\* 250 lines, the last of them ended by a newline, and the same with 251
ExactCode == << Run("code", 100), Run("blank", 50), Run("code", 100), Run("blank", 1) >>
OverCode == << Run("code", 251), Run("blank", 1) >>

Payloads == {ExactCode, OverCode}

\* "I'm having trouble responding right now.", one line
TroubleText == << Run("code", 1) >>

\* ChatGPTService.chat_with_history: the content, or the text of line 52
ChatWithHistory(reply) == IF reply.raises THEN TroubleText ELSE reply.content

\* CoderManager.generate_snippet returns what chat_with_history returned
GenerateSnippet(reply) == ChatWithHistory(reply)

\* the outcomes of the coder's call of the language model: a snippet text,
\* or an exception
CoderReplies == {Returns(ExactCode), Raises}

RECURSIVE LStrip(_)
LStrip(code) ==
    IF code = << >> THEN << >>
    ELSE IF Head(code).kind = "blank" THEN LStrip(Tail(code))
    ELSE code

RECURSIVE RStrip(_)
RStrip(code) ==
    IF code = << >> THEN << >>
    ELSE IF code[Len(code)].kind = "blank" THEN RStrip(SubSeq(code, 1, Len(code) - 1))
    ELSE code

\* str.strip(): leading and trailing whitespace, newlines included, is dropped
StripCode(code) == RStrip(LStrip(code))

RECURSIVE SumRuns(_)
SumRuns(code) ==
    IF code = << >> THEN 0 ELSE Head(code).n + SumRuns(Tail(code))

\* len(s.split("\n")): "" splits into [""], one element
SplitLen(code) == IF code = << >> THEN 1 ELSE SumRuns(code)

\* bot_config.get(key, default)
ConfigGet(key) ==
    IF key \in DOMAIN bot_config THEN bot_config[key] ELSE ConfigDefaults[key]

\* a size test that also turns away a snippet of exactly line_limit lines
TooLargeInclusive(snippet_code) ==
    SplitLen(StripCode(snippet_code)) >= ConfigGet("snippet_line_limit")

\* lines 95-97: len(snippet_code.strip().split("\n")) > line_limit
TooLarge(snippet_code) ==
    SplitLen(StripCode(snippet_code)) > ConfigGet("snippet_line_limit")

(***************************************************************************)
(* The store.                                                              *)
(***************************************************************************)
NoSid == 0
SnippetIds == 1..MaxSnippets

\* the ids handed out so far
Allocated == 1..(next_id - 1)

NoNotices ==
    [ proposed |-> 0, expired |-> 0, swept |-> 0, canceled |-> 0,
      extended |-> 0, warning |-> 0, failed |-> 0, success |-> 0,
      output |-> 0, crashed |-> 0 ]

\* a scan that matches the channel and forgets the thread
PendingInChannel(channel, thread_ts) ==
    { sid \in snippet_storage :
        /\ entries[sid].channel = channel
        /\ entries[sid].final_decision = "None" }

\* the records of channel/thread_ts that have final_decision None (lines 152-153)
PendingIn(channel, thread_ts) ==
    { sid \in snippet_storage :
        /\ entries[sid].channel = channel
        /\ entries[sid].thread_ts = thread_ts
        /\ entries[sid].final_decision = "None" }

\* a scan that keeps the entry with the least start_time
BestSidOldest(channel, thread_ts) ==
    LET P == PendingIn(channel, thread_ts) IN
    IF P = {} THEN NoSid
    ELSE CHOOSE s \in P :
           \A o \in P :
              \/ entries[s].start_time < entries[o].start_time
              \/ entries[o].start_time = entries[s].start_time /\ s <= o

\* lines 150-156: the scan keeps the first entry, in insertion order, among
\* those with the greatest start_time (ids are handed out in insertion order)
BestSid(channel, thread_ts) ==
    LET P == PendingIn(channel, thread_ts) IN
    IF P = {} THEN NoSid
    ELSE CHOOSE s \in P :
           \A o \in P :
              \/ entries[o].start_time < entries[s].start_time
              \/ entries[o].start_time = entries[s].start_time /\ s <= o

\* an expiry test that grants one more minute
IsExpiredLate(at, sid) == at > entries[sid].expires_at + 1

\* line 175: now > entry["expires_at"]
IsExpired(at, sid) == at > entries[sid].expires_at

\* line 219: entry["expires_at"] + timedelta(minutes=5)
NewExpires(sid) == entries[sid].expires_at + ExtendMinutes

\* list(snippet_storage.items()): the keys in insertion order
RECURSIVE Items(_)
Items(S) ==
    IF S = {} THEN << >>
    ELSE LET m == CHOOSE x \in S : \A y \in S : x <= y
         IN << m >> \o Items(S \ {m})

Post(sid, kind) == [notices EXCEPT ![sid][kind] = @ + 1]

IdleLocals == [channel |-> "", thread_ts |-> "", cmd |-> "", sid |-> NoSid,
               new_expires |-> 0]

\* the watchdog between two passes (line 253, time.sleep)
WatchdogAsleep == [pc |-> "sleep", at |-> 0, items |-> << >>]

\* core/snippets.py: the stream sys.stdout is before any snippet runs, and a
\* thread that is not inside run_snippet_now
OriginalStdout == 0
IdleRunner == [pc |-> "idle", old_stdout |-> OriginalStdout, captured_out |-> OriginalStdout]

\* services/slack_service.py: the event ids Slack delivers, and a thread that
\* is not inside slack_events
EventIds == {"Ev1", "Ev2", "Ev3"}
NoEvent == [event_id |-> "", type |-> "", from_bot |-> FALSE]

\* the payload Slack delivers under an event id, in every delivery of it: a
\* mention by a user, a plain message by a user, a mention posted by a bot
Event(event_id) ==
    [ event_id |-> event_id,
      type |-> IF event_id = "Ev2" THEN "message" ELSE "app_mention",
      from_bot |-> (event_id = "Ev3") ]
IdleRoute == [pc |-> "idle", event |-> NoEvent]

\* the state after construction, whatever bot_config holds
Constructed ==
    /\ now = 0
    /\ snippet_storage = {}
    /\ entries = << >>
    /\ next_id = 1
    /\ pc = [t \in Threads |-> "idle"]
    /\ h = [t \in Threads |-> IdleLocals]
    /\ terminated = FALSE
    /\ executed = << >>
    /\ notices = << >>
    /\ too_large = {}
    /\ classifier_conversation = NoMessage
    /\ log = {}
    /\ ran = {}
    /\ raised = {}
    /\ wd = WatchdogAsleep
    /\ sys_stdout = OriginalStdout
    /\ runner = [t \in Threads |-> IdleRunner]
    /\ next_stream = 1
    /\ written = {}
    /\ processed_event_ids = {}
    /\ route = [t \in Threads |-> IdleRoute]
    /\ dispatched = [e \in EventIds |-> 0]
    /\ PENDING_UPGRADES = << >>
    /\ merged = {}

Init == bot_config \in Configs /\ Constructed

(***************************************************************************)
(* Request handlers: BotEngine.handle_incoming_slack_event.                *)
(***************************************************************************)
Back(t) == /\ pc' = [pc EXCEPT ![t] = "idle"]
           /\ h' = [h EXCEPT ![t] = IdleLocals]

\* An entry dictionary exists as long as snippet_storage, the local variable
\* `entry` of a running _apply_typed_action or the list the watchdog
\* iterates refers to it.
HeldByHandlers(storage, pcs, hs) ==
    storage \cup { hs[t].sid : t \in { u \in Threads :
                      pcs[u] \in {"expired_pop", "act", "run", "extend_write"} } }

Referenced(storage, pcs, hs) ==
    HeldByHandlers(storage, pcs, hs) \cup { wd.items[i] : i \in DOMAIN wd.items }

Keep(es, live) == [sid \in live |-> es[sid]]

\* the extend commands the exploration accepts per snippet: under the
\* shipped configuration as many as it takes to reach the hard timeout
ExtendsAccepted ==
    IF bot_config = DefaultConfig THEN MaxDefaultExtends ELSE MaxExtends

\* extend commands in flight for sid
Extending(sid) ==
    Cardinality({ u \in Threads : pc[u] # "idle" /\ h[u].sid = sid /\ h[u].cmd = "extend" })

\* _handle_typed_snippet_command, lines 144-162: the value it would return
\* for this text in this thread (NoSid when it returns False)
TypedCommandSid(text, dest) ==
    IF LowerText(StripText(text)) \notin Commands THEN NoSid
    ELSE BestSid(dest.channel, dest.thread_ts)

\* lines 46-59 with 144-161: a reserved word that finds a pending snippet of
\* the thread is handed to _apply_typed_action
HandleTypedSnippetCommand(t, text, dest) ==
    /\ ~terminated
    /\ pc[t] = "idle"
    /\ LET text_lower == LowerText(StripText(text))
           best_sid == TypedCommandSid(text, dest)
       IN /\ best_sid # NoSid
          /\ text_lower.word = "extend" =>
                notices[best_sid].extended + Extending(best_sid) < ExtendsAccepted
          /\ pc' = [pc EXCEPT ![t] = "apply"]
          /\ h' = [h EXCEPT ![t] = [channel |-> dest.channel,
                                    thread_ts |-> dest.thread_ts,
                                    cmd |-> text_lower.word, sid |-> best_sid,
                                    new_expires |-> 0]]
    /\ UNCHANGED << bot_config, wd, beside, classifier_conversation, log, ran, raised,
                    now, snippet_storage, entries, next_id,
                    terminated, executed, notices, too_large >>

\* Outcomes of self.classifier_manager.review_snippet(prompt_review), line 110.
\* classifier_manager is whatever module the modules folder registers under
\* the name "classification_manager".  The ClassificationManager that ships
\* defines no review_snippet, so with it the call raises AttributeError and
\* the flow ends before the store ("raise").  "summary" is the call
\* returning a text, after which lines 112-142 run; they are the same
\* statements as SnippetManager.propose_snippet, lines 51-81, which takes the
\* summary as an argument and makes no review call.
ReviewOutcomes == {"summary", "raise"}

\* a coder flow that stores the text it counted the lines of
HandleCoderFlowStripped(snippet_code, review, dest) ==
    IF TooLarge(snippet_code)
    THEN /\ too_large' = too_large \cup {dest}
         /\ UNCHANGED << snippet_storage, entries, next_id, executed, notices >>
    ELSE IF review = "raise"
    THEN UNCHANGED << snippet_storage, entries, next_id, executed, notices, too_large >>
    ELSE LET snippet_id == next_id
             entry == [ code |-> StripCode(snippet_code),
                        channel |-> dest.channel,
                        thread_ts |-> dest.thread_ts,
                        expires_at |-> now + ConfigGet("snippet_expiration_minutes"),
                        start_time |-> now,
                        alerted_admin |-> FALSE,
                        final_decision |-> "None" ]
         IN /\ next_id' = next_id + 1
            /\ entries' = [s \in DOMAIN entries \cup {snippet_id} |->
                              IF s = snippet_id THEN entry ELSE entries[s]]
            /\ snippet_storage' = snippet_storage \cup {snippet_id}
            /\ executed' = [s \in Allocated \cup {snippet_id} |->
                              IF s = snippet_id THEN 0 ELSE executed[s]]
            /\ notices' = [s \in Allocated \cup {snippet_id} |->
                              IF s = snippet_id
                              THEN [NoNotices EXCEPT !.proposed = 1]
                              ELSE notices[s]]
            /\ too_large' = too_large

\* _handle_coder_flow, lines 87-142, for the snippet text the coder returned
\* and the outcome of the review call
HandleCoderFlow(snippet_code, review, dest) ==
    IF TooLarge(snippet_code)
    THEN /\ too_large' = too_large \cup {dest}
         /\ UNCHANGED << snippet_storage, entries, next_id, executed, notices >>
    ELSE IF review = "raise"
    THEN UNCHANGED << snippet_storage, entries, next_id, executed, notices, too_large >>
    ELSE LET snippet_id == next_id
             entry == [ code |-> snippet_code,
                        channel |-> dest.channel,
                        thread_ts |-> dest.thread_ts,
                        expires_at |-> now + ConfigGet("snippet_expiration_minutes"),
                        start_time |-> now,
                        alerted_admin |-> FALSE,
                        final_decision |-> "None" ]
         IN /\ next_id' = next_id + 1
            /\ entries' = [s \in DOMAIN entries \cup {snippet_id} |->
                              IF s = snippet_id THEN entry ELSE entries[s]]
            /\ snippet_storage' = snippet_storage \cup {snippet_id}
            /\ executed' = [s \in Allocated \cup {snippet_id} |->
                              IF s = snippet_id THEN 0 ELSE executed[s]]
            /\ notices' = [s \in Allocated \cup {snippet_id} |->
                              IF s = snippet_id
                              THEN [NoNotices EXCEPT !.proposed = 1]
                              ELSE notices[s]]
            /\ too_large' = too_large

\* lines 57-75: a text that _handle_typed_snippet_command did not take is
\* classified; CODER runs _handle_coder_flow, the other two flows answer in
\* the thread and touch no snippet.  The handler shares nothing with other
\* threads before the single store of line 117.
HandleIncomingSlackEvent(t, text, dest, gpt_reply, snippet_code, review, limit) ==
    /\ ~terminated
    /\ pc[t] = "idle"
    /\ TypedCommandSid(text, dest) = NoSid
    /\ LET classification == HandleClassification(ClassifyChat(gpt_reply))
           req_type == classification.request_type
       IN /\ classifier_conversation' = classification.assistant
          /\ IF Flow(req_type) = "coder"
             THEN /\ next_id <= limit
                  /\ HandleCoderFlow(snippet_code, review, dest)
             ELSE UNCHANGED << snippet_storage, entries, next_id, executed,
                               notices, too_large >>
    /\ UNCHANGED << bot_config, wd, beside, log, ran, raised,
                    now, pc, h, terminated >>

\* _apply_typed_action, lines 165-182: the membership test, the expiry test
\* and the "Snippet expired" message
ApplyTypedAction(t) ==
    /\ ~terminated
    /\ pc[t] = "apply"
    /\ LET snippet_id == h[t].sid IN
       IF snippet_id \notin snippet_storage
       THEN /\ notices' = notices   \* "Snippet not found" goes to channel ""
            /\ Back(t)
       ELSE IF IsExpired(now, snippet_id)
       THEN /\ notices' = Post(snippet_id, "expired")
            /\ pc' = [pc EXCEPT ![t] = "expired_pop"]
            /\ h' = h
       ELSE /\ notices' = notices
            /\ pc' = [pc EXCEPT ![t] = "act"]
            /\ h' = h
    /\ UNCHANGED << bot_config, wd, beside, classifier_conversation, log, ran, raised,
                    now, snippet_storage, entries, next_id,
                    terminated, executed, too_large >>

\* line 181: snippet_storage.pop(snippet_id, None) of the expiry branch
ExpiredPop(t) ==
    /\ ~terminated
    /\ pc[t] = "expired_pop"
    /\ snippet_storage' = snippet_storage \ {h[t].sid}
    /\ Back(t)
    /\ entries' = Keep(entries, Referenced(snippet_storage', pc', h'))
    /\ UNCHANGED << bot_config, wd, beside, classifier_conversation, log, ran, raised,
                    now, next_id, terminated, executed, notices,
                    too_large >>

\* a confirm branch that leaves the entry in the store while the snippet runs
ConfirmCommitKeep(t) ==
    /\ ~terminated
    /\ pc[t] = "act"
    /\ h[t].cmd = "confirm"
    /\ entries' = [entries EXCEPT ![h[t].sid].final_decision = "confirm"]
    /\ pc' = [pc EXCEPT ![t] = "run"]
    /\ h' = h
    /\ UNCHANGED << bot_config, wd, beside, classifier_conversation, log, ran, raised,
                    now, snippet_storage, next_id, terminated, executed,
                    notices, too_large >>

\* lines 184-186: the confirm branch records the decision and pops the entry
ConfirmCommit(t) ==
    /\ ~terminated
    /\ pc[t] = "act"
    /\ h[t].cmd = "confirm"
    /\ entries' = [entries EXCEPT ![h[t].sid].final_decision = "confirm"]
    /\ snippet_storage' = snippet_storage \ {h[t].sid}
    /\ pc' = [pc EXCEPT ![t] = "run"]
    /\ h' = h
    /\ UNCHANGED << bot_config, wd, beside, classifier_conversation, log, ran, raised,
                    now, next_id, terminated, executed, notices,
                    too_large >>

\* The value create_snippet_callable returns for entry["code"]
\* (coder_manager.py lines 39-53): None when exec raises or binds no
\* generated_snippet, else a function, told by what a call of it does:
\* whether it raises an Exception and whether it prints before it ends.
NoCallable == [made |-> FALSE]
Callable(raises, prints) == [made |-> TRUE, raises |-> raises, prints |-> prints]
SnippetCallables ==
    {NoCallable} \cup { Callable(r, p) : r \in BOOLEAN, p \in BOOLEAN }

\* the names core/snippets.py binds at module level (lines 3-8)
SnippetsGlobals == {"logging", "TaskScheduler", "logger", "SnippetsRunner"}

\* SnippetsRunner.run_snippet_now, core/snippets.py lines 17-67: the
\* messages it posts, in order, and whether an exception leaves it.  Both
\* the except clause and the else clause end with an unconditional
\* SlackService().post_message; the name SlackService is looked up among
\* the module's globals, and the NameError of a missing name is raised
\* before anything is posted.
RunSnippetNow(snippet_callable) ==
    IF "SlackService" \in SnippetsGlobals
    THEN [ posts |-> (IF snippet_callable.prints THEN << "output" >> ELSE << >>)
                        \o (IF snippet_callable.raises THEN << "crashed" >>
                                                       ELSE << "success" >>),
           raises |-> FALSE ]
    ELSE [ posts |-> << >>, raises |-> TRUE ]

RECURSIVE PostAll(_, _, _)
PostAll(ns, sid, kinds) ==
    IF kinds = << >> THEN ns
    ELSE PostAll([ns EXCEPT ![sid][Head(kinds)] = @ + 1], sid, Tail(kinds))

\* bot_engine.py lines 188-206: the callable is made from entry["code"];
\* None is answered with "Failed to create snippet callable"; a function is
\* run by run_snippet_now and, when that returns, line 194 posts "Snippet
\* executed successfully!".  An exception that leaves run_snippet_now
\* leaves _apply_typed_action and handle_incoming_slack_event too.
RunSnippet(t, snippet_callable) ==
    /\ ~terminated
    /\ pc[t] = "run"
    /\ LET sid == h[t].sid IN
       /\ ran' = ran \cup { [sid |-> sid, code |-> entries[sid].code] }
       /\ IF snippet_callable.made
          THEN LET run == RunSnippetNow(snippet_callable) IN
               /\ executed' = [executed EXCEPT ![sid] = @ + 1]
               /\ notices' = PostAll(notices, sid,
                                 run.posts \o (IF run.raises THEN << >>
                                               ELSE << "success" >>))
               /\ raised' = IF run.raises THEN raised \cup {sid} ELSE raised
          ELSE /\ executed' = executed
               /\ notices' = Post(sid, "failed")
               /\ raised' = raised
    /\ Back(t)
    /\ entries' = Keep(entries, Referenced(snippet_storage, pc', h'))
    /\ UNCHANGED << bot_config, wd, beside, classifier_conversation, log,
                    now, snippet_storage, next_id, terminated,
                    too_large >>

\* lines 208-215
CancelSnippet(t) ==
    /\ ~terminated
    /\ pc[t] = "act"
    /\ h[t].cmd = "cancel"
    /\ snippet_storage' = snippet_storage \ {h[t].sid}
    /\ notices' = Post(h[t].sid, "canceled")
    /\ Back(t)
    /\ entries' = Keep([entries EXCEPT ![h[t].sid].final_decision = "cancel"],
                       Referenced(snippet_storage', pc', h'))
    /\ UNCHANGED << bot_config, wd, beside, classifier_conversation, log, ran, raised,
                    now, next_id, terminated, executed, too_large >>

\* line 219: new_expires = entry["expires_at"] + timedelta(minutes=5)
ExtendRead(t) ==
    /\ ~terminated
    /\ pc[t] = "act"
    /\ h[t].cmd = "extend"
    /\ h' = [h EXCEPT ![t].new_expires = NewExpires(h[t].sid)]
    /\ pc' = [pc EXCEPT ![t] = "extend_write"]
    /\ UNCHANGED << bot_config, wd, beside, classifier_conversation, log, ran, raised,
                    now, snippet_storage, entries, next_id,
                    terminated, executed, notices, too_large >>

\* an extend that also re-arms the watchdog warning
ExtendWriteRearm(t) ==
    /\ ~terminated
    /\ pc[t] = "extend_write"
    /\ notices' = Post(h[t].sid, "extended")
    /\ Back(t)
    /\ entries' = Keep([entries EXCEPT ![h[t].sid].expires_at = h[t].new_expires,
                                       ![h[t].sid].alerted_admin = FALSE],
                       Referenced(snippet_storage, pc', h'))
    /\ UNCHANGED << bot_config, wd, beside, classifier_conversation, log, ran, raised,
                    now, snippet_storage, next_id, terminated,
                    executed, too_large >>

\* lines 220-225: entry["expires_at"] = new_expires, then the message
ExtendWrite(t) ==
    /\ ~terminated
    /\ pc[t] = "extend_write"
    /\ notices' = Post(h[t].sid, "extended")
    /\ Back(t)
    /\ entries' = Keep([entries EXCEPT ![h[t].sid].expires_at = h[t].new_expires],
                       Referenced(snippet_storage, pc', h'))
    /\ UNCHANGED << bot_config, wd, beside, classifier_conversation, log, ran, raised,
                    now, snippet_storage, next_id, terminated,
                    executed, too_large >>

(***************************************************************************)
(* The daemon threads.  One pass of each loop body is one step.            *)
(***************************************************************************)
\* a notice condition with the test of final_decision turned around
SweepNoticedDecided(at) ==
    { sid \in snippet_storage :
        IsExpired(at, sid) /\ entries[sid].final_decision # "None" }

\* lines 289-296: the items for which the pass posts "expired with no final
\* decision"
SweepNoticed(at) ==
    { sid \in snippet_storage :
        IsExpired(at, sid) /\ entries[sid].final_decision = "None" }

\* _cleanup_expired_snippets, lines 286-297: one pass of the loop
CleanupExpiredSnippets ==
    /\ ~terminated
    /\ snippet_storage # {}
    /\ notices' = [sid \in Allocated |->
                     IF sid \in SweepNoticed(now)
                     THEN [notices[sid] EXCEPT !.swept = @ + 1]
                     ELSE notices[sid]]
    /\ snippet_storage' = { sid \in snippet_storage : ~IsExpired(now, sid) }
    /\ entries' = Keep(entries, Referenced(snippet_storage', pc, h))
    /\ UNCHANGED << bot_config, wd, beside, classifier_conversation, log, ran, raised,
                    now, next_id, pc, h, terminated, executed,
                    too_large >>

\* an age counted from the start of the current expiry window
AgeSinceWindow(at, sid) ==
    (at - (entries[sid].expires_at - ConfigGet("snippet_expiration_minutes"))) * 60

\* line 264: (now - data["start_time"]).total_seconds()
AgeSeconds(at, sid) == (at - entries[sid].start_time) * 60

\* a warning test that forgets the flag alerted_admin
WarnDueAgain(at, sid) ==
    AgeSeconds(at, sid) > ConfigGet("snippet_watchdog_seconds")

\* a warning test that is made only after the termination test has failed
WarnDueAfterKill(at, sid) ==
    /\ ~entries[sid].alerted_admin
    /\ AgeSeconds(at, sid) > ConfigGet("snippet_watchdog_seconds")
    /\ ~ ( /\ ConfigGet("force_bot_termination_on_snippet_freeze")
           /\ AgeSeconds(at, sid) > ConfigGet("admin_watchdog_timeout_seconds") )

\* line 266: the warning is due
WarnDue(at, sid) ==
    /\ ~entries[sid].alerted_admin
    /\ AgeSeconds(at, sid) > ConfigGet("snippet_watchdog_seconds")

\* a termination test that does not look at the flag
KillDueUngated(at, sid) ==
    AgeSeconds(at, sid) > ConfigGet("admin_watchdog_timeout_seconds")

\* line 276: the process is to be terminated
KillDue(at, sid) ==
    /\ ConfigGet("force_bot_termination_on_snippet_freeze")
    /\ AgeSeconds(at, sid) > ConfigGet("admin_watchdog_timeout_seconds")

\* the items the loop of lines 260-278 reaches: it stops at os._exit
RECURSIVE Visited(_, _)
Visited(seq, at) ==
    IF seq = << >> THEN {}
    ELSE LET sid == Head(seq) IN
         IF entries[sid].final_decision = "None" /\ KillDue(at, sid)
         THEN {sid}
         ELSE {sid} \cup Visited(Tail(seq), at)

\* line 277: what logger.error is given, the id and the configured timeout
EscalationRecord(sid) ==
    [ sid |-> sid,
      admin_timeout |-> ConfigGet("admin_watchdog_timeout_seconds") ]

\* _snippet_watchdog, lines 253-278: one pass of the loop
SnippetWatchdog ==
    /\ ~terminated
    /\ snippet_storage # {}
    /\ LET seen == { sid \in Visited(Items(snippet_storage), now) :
                        entries[sid].final_decision = "None" }
           warned == { sid \in seen : WarnDue(now, sid) }
       IN /\ notices' = [sid \in Allocated |->
                           IF sid \in warned
                           THEN [notices[sid] EXCEPT !.warning = @ + 1]
                           ELSE notices[sid]]
          /\ entries' = [sid \in DOMAIN entries |->
                           IF sid \in warned
                           THEN [entries[sid] EXCEPT !.alerted_admin = TRUE]
                           ELSE entries[sid]]
          /\ terminated' = (\E sid \in seen : KillDue(now, sid))
          /\ log' = log \cup { EscalationRecord(sid) :
                                  sid \in { k \in seen : KillDue(now, k) } }
    /\ UNCHANGED << bot_config, wd, beside, classifier_conversation, ran, raised,
                    now, snippet_storage, next_id, pc, h,
                    executed, too_large >>

\* the clock advances
Tick ==
    /\ ~terminated
    /\ now < MaxTime
    /\ now' = now + 1
    /\ UNCHANGED << bot_config, wd, beside, classifier_conversation, log, ran, raised,
                    snippet_storage, entries, next_id, pc, h,
                    terminated, executed, notices, too_large >>

(***************************************************************************)
(* The steps of the program when the requests are handled by `threads`,    *)
(* the classifier call ends in one of `classifier`, the coder call in one  *)
(* of `coder`, and `limit` snippets are proposed.                          *)
(***************************************************************************)
Handlers(threads, classifier, coder, limit) ==
    \/ \E t \in threads, text \in Texts, dest \in Destinations :
          HandleTypedSnippetCommand(t, text, dest)
    \/ \E t \in threads, text \in Texts, dest \in Destinations,
          gpt_reply \in classifier, coder_reply \in coder,
          review \in ReviewOutcomes :
          HandleIncomingSlackEvent(t, text, dest, gpt_reply,
                                   GenerateSnippet(coder_reply), review, limit)
    \/ \E t \in threads : ApplyTypedAction(t)
    \/ \E t \in threads : ExpiredPop(t)
    \/ \E t \in threads : ConfirmCommit(t)
    \/ \E t \in threads, snippet_callable \in SnippetCallables :
          RunSnippet(t, snippet_callable)
    \/ \E t \in threads : CancelSnippet(t)
    \/ \E t \in threads : ExtendRead(t)
    \/ \E t \in threads : ExtendWrite(t)

\* the handlers next to the two daemons, one pass of a daemon being one step
Steps(threads, classifier, coder, limit) ==
    \/ Handlers(threads, classifier, coder, limit)
    \/ CleanupExpiredSnippets
    \/ SnippetWatchdog
    \/ Tick

\* Spec: requests are handled concurrently, next to the two daemons; every
\* classified request is one for the coder
Next == Steps(Threads, {CoderReply}, {Returns(ExactCode)}, MaxRaced)

Spec == Init /\ [][Next]_vars

\* SeqSpec: one request is in progress at a time, next to the two daemons;
\* the coder also returns snippets that fail the size test
SeqNext == Steps({"h1"}, {CoderReply}, { Returns(c) : c \in Payloads }, MaxSnippets)

\* requests handled one at a time, under the configuration that sets every key
SeqInit == Init /\ bot_config = ShortConfig
SeqSpec == SeqInit /\ [][SeqNext]_vars

\* _cleanup_expired_snippets is a `while True` loop of a thread that nothing
\* stops but the end of the process, and post_message swallows every
\* exception: a pass that stays possible is eventually made.
LiveSpec == Init /\ [][Next]_vars /\ WF_vars(CleanupExpiredSnippets)

\* OracleSpec: one request at a time; the classifier call and the coder
\* call end in any of their outcomes, failures included
OracleNext == Steps({"h1"}, ClassifierReplies, CoderReplies, MaxRaced)

OracleSpec == SeqInit /\ [][OracleNext]_vars

(***************************************************************************)
(* The watchdog, statement by statement: the pass of _snippet_watchdog     *)
(* iterates a copy of the items made at line 260, while the handlers and   *)
(* the reaper go on.                                                       *)
(***************************************************************************)
\* lines 253-260: the sleep ends, now is read and the items are copied
WatchdogSnapshot ==
    /\ ~terminated
    /\ wd.pc = "sleep"
    /\ snippet_storage # {}
    /\ wd' = [pc |-> "loop", at |-> now, items |-> Items(snippet_storage)]
    /\ UNCHANGED << engine_vars, beside >>

\* lines 260-278: the body of the loop for the next item of the copy
WatchdogVisit ==
    /\ ~terminated
    /\ wd.pc = "loop"
    /\ LET sid == Head(wd.items)
           rest == Tail(wd.items)
           pending == entries[sid].final_decision = "None"
           warn == pending /\ WarnDue(wd.at, sid)
           kill == pending /\ KillDue(wd.at, sid)
           alerted == IF warn
                      THEN [entries EXCEPT ![sid].alerted_admin = TRUE]
                      ELSE entries
       IN /\ notices' = IF warn
                        THEN [notices EXCEPT ![sid].warning = @ + 1]
                        ELSE notices
          /\ wd' = IF rest = << >> \/ kill
                   THEN WatchdogAsleep
                   ELSE [wd EXCEPT !.items = rest]
          /\ entries' = Keep(alerted,
                             HeldByHandlers(snippet_storage, pc, h)
                                \cup { rest[i] : i \in DOMAIN rest })
          /\ terminated' = kill
          /\ log' = IF kill THEN log \cup {EscalationRecord(sid)} ELSE log
    /\ UNCHANGED << bot_config, beside, classifier_conversation, ran, raised,
                    now, snippet_storage, next_id, pc, h,
                    executed, too_large >>

\* RaceSpec: one request at a time next to the reaper and the watchdog, the
\* watchdog's pass being interleaved with them item by item
RaceNext ==
    \/ Handlers({"h1"}, {CoderReply}, {Returns(ExactCode)}, MaxRaced)
    \/ CleanupExpiredSnippets
    \/ WatchdogSnapshot
    \/ WatchdogVisit
    \/ Tick

RaceSpec == SeqInit /\ [][RaceNext]_vars

(***************************************************************************)
(* The shipped configuration: a five-minute expiry window, a reaper that   *)
(* polls every 30 seconds, a hard timeout of three hours.  The clock       *)
(* counts minutes, so a reaper pass falls into every minute: the clock     *)
(* does not pass a minute in which a stored snippet is expired before the  *)
(* reaper has made its pass.                                               *)
(***************************************************************************)
\* line 286, time.sleep(30): the next minute begins after the reaper's pass
TimelyTick ==
    /\ ~terminated
    /\ now < MaxDefaultTime
    /\ \A sid \in snippet_storage : ~IsExpired(now, sid)
    /\ now' = now + 1
    /\ UNCHANGED << bot_config, wd, beside, classifier_conversation, log, ran, raised,
                    snippet_storage, entries, next_id, pc, h,
                    terminated, executed, notices, too_large >>

\* DefaultSpec: one request at a time under DefaultConfig; the one snippet
\* is proposed in minute 0
DefaultNext ==
    \/ now = 0 /\ Handlers({"h1"}, {CoderReply}, {Returns(ExactCode)}, MaxRaced)
    \/ now > 0 /\ Handlers({"h1"}, {CoderReply}, {Returns(ExactCode)}, 0)
    \/ CleanupExpiredSnippets
    \/ SnippetWatchdog
    \/ TimelyTick

DefaultInit == bot_config = DefaultConfig /\ Constructed
DefaultSpec == DefaultInit /\ [][DefaultNext]_vars

(***************************************************************************)
(* SnippetsRunner.run_snippet_now (core/snippets.py) called by request     *)
(* threads that confirm different snippets: sys.stdout is one module-level *)
(* attribute for all of them.                                              *)
(***************************************************************************)
\* lines 26-28: old_stdout = sys.stdout; captured_out = io.StringIO();
\* sys.stdout = captured_out
RunBegin(t) ==
    /\ runner[t].pc = "idle"
    /\ next_stream <= MaxRuns
    /\ runner' = [runner EXCEPT ![t] = [pc |-> "try",
                                        old_stdout |-> sys_stdout,
                                        captured_out |-> next_stream]]
    /\ sys_stdout' = next_stream
    /\ next_stream' = next_stream + 1
    /\ UNCHANGED << engine_vars, wd, written, event_vars, upgrade_vars >>

\* lines 30-62: the snippet is called, and what it prints goes to the stream
\* sys.stdout is at that moment; the except and else blocks post the outcome
RunCall(t, snippet_callable) ==
    /\ runner[t].pc = "try"
    /\ written' = IF snippet_callable.prints
                  THEN written \cup {[stream |-> sys_stdout, by |-> t]}
                  ELSE written
    /\ runner' = [runner EXCEPT ![t].pc = "finally"]
    /\ UNCHANGED << engine_vars, wd, sys_stdout, next_stream,
                    event_vars, upgrade_vars >>

\* lines 65-67: finally: sys.stdout = old_stdout
RunFinally(t) ==
    /\ runner[t].pc = "finally"
    /\ sys_stdout' = runner[t].old_stdout
    /\ runner' = [runner EXCEPT ![t] = IdleRunner]
    /\ UNCHANGED << engine_vars, wd, next_stream, written,
                    event_vars, upgrade_vars >>

StdoutNext ==
    \/ \E t \in Threads : RunBegin(t)
    \/ \E t \in Threads, snippet_callable \in SnippetCallables \ {NoCallable} :
          RunCall(t, snippet_callable)
    \/ \E t \in Threads : RunFinally(t)

StdoutSpec == SeqInit /\ [][StdoutNext]_vars

(***************************************************************************)
(* The route /slack/events (services/slack_service.py), served by          *)
(* concurrent request threads over the module-level set                    *)
(* processed_event_ids.                                                    *)
(***************************************************************************)
\* the names BotEngine defines that slack_events calls
BotEngineMethods == {"handle_incoming_slack_event"}

\* lines 31-44: a delivery with a valid signature is accepted and unpacked
Receive(t, event_id) ==
    /\ route[t].pc = "idle"
    /\ dispatched[event_id] < MaxDeliveries
    /\ route' = [route EXCEPT ![t] = [pc |-> "test", event |-> Event(event_id)]]
    /\ UNCHANGED << engine_vars, wd, stdout_vars, processed_event_ids,
                    dispatched, upgrade_vars >>

\* lines 47-49: if event_id and event_id in processed_event_ids: return
DuplicateTest(t) ==
    /\ route[t].pc = "test"
    /\ route' = IF route[t].event.event_id \in processed_event_ids
                THEN [route EXCEPT ![t] = IdleRoute]
                ELSE [route EXCEPT ![t].pc = "add"]
    /\ UNCHANGED << engine_vars, wd, stdout_vars, processed_event_ids,
                    dispatched, upgrade_vars >>

\* lines 50-51: processed_event_ids.add(event_id)
Remember(t) ==
    /\ route[t].pc = "add"
    /\ processed_event_ids' = processed_event_ids \cup {route[t].event.event_id}
    /\ route' = [route EXCEPT ![t].pc = "dispatch"]
    /\ UNCHANGED << engine_vars, wd, stdout_vars, dispatched, upgrade_vars >>

\* lines 54-77: events of the bot are dropped, a mention is handed to the bot
\* engine, a plain message stops at the call of has_pending_snippet
Dispatch(t) ==
    /\ route[t].pc = "dispatch"
    /\ LET event == route[t].event
           handed == /\ ~event.from_bot
                     /\ \/ event.type = "app_mention"
                        \/ /\ event.type = "message"
                           /\ "has_pending_snippet" \in BotEngineMethods
       IN dispatched' = IF handed
                        THEN [dispatched EXCEPT ![event.event_id] = @ + 1]
                        ELSE dispatched
    /\ route' = [route EXCEPT ![t] = IdleRoute]
    /\ UNCHANGED << engine_vars, wd, stdout_vars, processed_event_ids,
                    upgrade_vars >>

EventNext ==
    \/ \E t \in Threads, event_id \in EventIds : Receive(t, event_id)
    \/ \E t \in Threads : DuplicateTest(t)
    \/ \E t \in Threads : Remember(t)
    \/ \E t \in Threads : Dispatch(t)

EventSpec == SeqInit /\ [][EventNext]_vars

(***************************************************************************)
(* The self-upgrade plugin (plugins/self_upgrade.py).  A mention is one    *)
(* step: the listener registered for it runs to its end.  The GPT and      *)
(* GitHub calls either return or raise.                                    *)
(***************************************************************************)
\* the Slack users that mention the bot, and ADMIN_USER_IDS (line 58, read
\* from the environment)
Users == {"U1", "U2", "U3"}
ADMIN_USER_IDS == {"U1", "U2"}

\* line 44
MULTI_ADMIN_REQUIRED == TRUE

\* PENDING_UPGRADES.get(user_id): the status of the user's upgrade, "" for
\* None
StatusOf(user_id) ==
    IF user_id \in DOMAIN PENDING_UPGRADES
    THEN PENDING_UPGRADES[user_id].status
    ELSE ""

SetStatus(user_id, status) ==
    [PENDING_UPGRADES EXCEPT ![user_id].status = status]

\* del PENDING_UPGRADES[user_id]
Deleted(user_id) ==
    [u \in DOMAIN PENDING_UPGRADES \ {user_id} |-> PENDING_UPGRADES[u]]

\* handle_request_upgrade, lines 150-196: a request replaces whatever the
\* user had pending
RequestUpgrade(user_id, gpt_returns) ==
    /\ gpt_returns
    /\ PENDING_UPGRADES' =
          [u \in DOMAIN PENDING_UPGRADES \cup {user_id} |->
              IF u = user_id
              THEN [status |-> "pending_review", branch_name |-> FALSE,
                    code_snippet |-> FALSE]
              ELSE PENDING_UPGRADES[u]]
    /\ UNCHANGED << engine_vars, wd, stdout_vars, event_vars, merged >>

\* handle_confirm_upgrade, lines 198-226
ConfirmUpgrade(user_id, branch_created) ==
    /\ StatusOf(user_id) = "pending_review"
    /\ branch_created
    /\ PENDING_UPGRADES' =
          [PENDING_UPGRADES EXCEPT ![user_id] =
              [@ EXCEPT !.branch_name = TRUE, !.status = "code_needed"]]
    /\ UNCHANGED << engine_vars, wd, stdout_vars, event_vars, merged >>

\* handle_new_code, lines 228-260
NewCode(user_id) ==
    /\ StatusOf(user_id) = "code_needed"
    /\ PENDING_UPGRADES' =
          [PENDING_UPGRADES EXCEPT ![user_id] =
              [@ EXCEPT !.code_snippet = TRUE, !.status = "pending_sanity_check"]]
    /\ UNCHANGED << engine_vars, wd, stdout_vars, event_vars, merged >>

\* handle_do_sanity_check, lines 262-293
DoSanityCheck(user_id, gpt_returns) ==
    /\ StatusOf(user_id) = "pending_sanity_check"
    /\ gpt_returns
    /\ PENDING_UPGRADES' = SetStatus(user_id, "awaiting_final_approval")
    /\ UNCHANGED << engine_vars, wd, stdout_vars, event_vars, merged >>

\* the commit and the merge of lines 323-341 and 469-488: what they leave
\* in PENDING_UPGRADES and on main when they return, nothing when one raises
CommitAndMerge(requester_id, approver_id, github_returns) ==
    IF github_returns
    THEN /\ merged' = merged \cup {[requester |-> requester_id,
                                     approver |-> approver_id]}
         /\ PENDING_UPGRADES' = Deleted(requester_id)
    ELSE UNCHANGED << PENDING_UPGRADES, merged >>

\* initiate_multi_admin_approval, lines 377-406
InitiateMultiAdminApproval(requester_id) ==
    LET admin_ids == ADMIN_USER_IDS \ {requester_id} IN
    /\ PENDING_UPGRADES' = IF admin_ids = {}
                           THEN PENDING_UPGRADES
                           ELSE SetStatus(requester_id, "pending_admin_approval")
    /\ UNCHANGED merged

\* handle_finalize_upgrade, lines 296-344
FinalizeUpgrade(user_id, github_returns) ==
    /\ StatusOf(user_id) = "awaiting_final_approval"
    /\ IF MULTI_ADMIN_REQUIRED
       THEN InitiateMultiAdminApproval(user_id)
       ELSE CommitAndMerge(user_id, user_id, github_returns)
    /\ UNCHANGED << engine_vars, wd, stdout_vars, event_vars >>

\* handle_abort_upgrade, lines 347-375
AbortUpgrade(user_id) ==
    /\ StatusOf(user_id) # ""
    /\ PENDING_UPGRADES' = Deleted(user_id)
    /\ UNCHANGED << engine_vars, wd, stdout_vars, event_vars, merged >>

\* handle_admin_approval_events with approve_upgrade, lines 412-491
ApproveUpgrade(user_id, target_user_id, github_returns) ==
    /\ user_id \in ADMIN_USER_IDS
    /\ StatusOf(target_user_id) = "pending_admin_approval"
    /\ CommitAndMerge(target_user_id, user_id, github_returns)
    /\ UNCHANGED << engine_vars, wd, stdout_vars, event_vars >>

\* handle_admin_approval_events with deny_upgrade, lines 412-448, 493-522
DenyUpgrade(user_id, target_user_id) ==
    /\ user_id \in ADMIN_USER_IDS
    /\ StatusOf(target_user_id) = "pending_admin_approval"
    /\ PENDING_UPGRADES' = Deleted(target_user_id)
    /\ UNCHANGED << engine_vars, wd, stdout_vars, event_vars, merged >>

UpgradeNext ==
    \/ \E user_id \in Users, gpt_returns \in BOOLEAN :
          RequestUpgrade(user_id, gpt_returns)
    \/ \E user_id \in Users, branch_created \in BOOLEAN :
          ConfirmUpgrade(user_id, branch_created)
    \/ \E user_id \in Users : NewCode(user_id)
    \/ \E user_id \in Users, gpt_returns \in BOOLEAN :
          DoSanityCheck(user_id, gpt_returns)
    \/ \E user_id \in Users, github_returns \in BOOLEAN :
          FinalizeUpgrade(user_id, github_returns)
    \/ \E user_id \in Users : AbortUpgrade(user_id)
    \/ \E user_id \in Users, target_user_id \in Users, github_returns \in BOOLEAN :
          ApproveUpgrade(user_id, target_user_id, github_returns)
    \/ \E user_id \in Users, target_user_id \in Users :
          DenyUpgrade(user_id, target_user_id)

UpgradeSpec == SeqInit /\ [][UpgradeNext]_vars

(***************************************************************************)
(* Properties.                                                             *)
(***************************************************************************)
Handling(t) == pc[t] # "idle"

Destination(sid) == [channel |-> entries[sid].channel,
                     thread_ts |-> entries[sid].thread_ts]

ExpiryNotices(sid) == notices[sid].expired + notices[sid].swept

\* the notices that report a terminal decision
TerminalNotices(sid) ==
    notices[sid].expired + notices[sid].swept + notices[sid].canceled
      + notices[sid].success + notices[sid].failed

\* the snippet is out of the store and no handler is working on it any more
Settled(sid) ==
    /\ sid \notin snippet_storage
    /\ \A t \in Threads : Handling(t) => h[t].sid # sid

\* C1: a snippet is run only by the handler of a `confirm` that was received
\* in the snippet's own channel and thread while the snippet was in the store
\* with no decision, and that found the snippet in the store with
\* now <= expires_at; no other step (cancel, extend, the watchdog pass, the
\* reaper pass, a proposal, the clock) runs a snippet.
C1_ExecutedOnlyByConfirm ==
    [][ /\ \A sid \in Allocated :
              executed'[sid] # executed[sid] =>
                 /\ executed'[sid] = executed[sid] + 1
                 /\ \E t \in Threads : pc[t] = "run" /\ pc'[t] = "idle" /\ h[t].sid = sid
        /\ \A t \in Threads :
              /\ (pc'[t] = "run" /\ pc[t] # "run") =>
                    pc[t] = "act" /\ h[t].cmd = "confirm" /\ h'[t] = h[t]
              /\ (pc'[t] = "act" /\ pc[t] # "act") =>
                    /\ pc[t] = "apply" /\ h'[t] = h[t]
                    /\ h[t].sid \in snippet_storage
                    /\ now <= entries[h[t].sid].expires_at
              /\ (pc'[t] = "apply" /\ pc[t] # "apply") =>
                    /\ pc[t] = "idle"
                    /\ h'[t].sid \in snippet_storage
                    /\ entries[h'[t].sid].final_decision = "None"
                    /\ Destination(h'[t].sid) = [channel |-> h'[t].channel,
                                                 thread_ts |-> h'[t].thread_ts]
      ]_vars

\* C1 witness: a snippet has been run
C1_Witness == \E sid \in Allocated : executed[sid] = 1 /\ ExpiryNotices(sid) = 0

\* C2: for every snippet id the snippet is run at most once
C2_AtMostOnce == \A sid \in Allocated : executed[sid] <= 1

\* C3: a snippet is never both run and reported as expired
C3_ConfirmedOrExpired ==
    \A sid \in Allocated : ~(executed[sid] >= 1 /\ ExpiryNotices(sid) >= 1)

\* C4: a snippet never gets two terminal notices, and once it is out of the
\* store and out of every handler it has got exactly one
C4_OneTerminalNotice ==
    \A sid \in Allocated :
       /\ TerminalNotices(sid) <= 1
       /\ Settled(sid) => TerminalNotices(sid) = 1

\* C5: the handler of a `confirm` that finds its snippet in the store with
\* now > expires_at posts the expiry notice and runs nothing; its next step
\* removes the snippet from the store and ends the handler, which never
\* reaches the confirm branch - whether or not the reaper has passed.
C5_ExpiryBeforeConfirm ==
    [][ \A t \in Threads :
          /\ ( /\ pc[t] = "apply" /\ pc'[t] # "apply"
               /\ h[t].cmd = "confirm"
               /\ h[t].sid \in snippet_storage
               /\ now > entries[h[t].sid].expires_at )
             => /\ pc'[t] = "expired_pop"
                /\ notices'[h[t].sid].expired = notices[h[t].sid].expired + 1
                /\ executed' = executed
          /\ (pc[t] = "expired_pop" /\ pc'[t] # "expired_pop")
             => /\ pc'[t] = "idle"
                /\ h[t].sid \notin snippet_storage'
                /\ executed' = executed
      ]_vars

\* C5 witness: a confirm has taken the expiry branch for a snippet the reaper
\* has not swept
C5_Witness ==
    \E t \in Threads :
       /\ pc[t] = "expired_pop" /\ h[t].cmd = "confirm"
       /\ h[t].sid \in snippet_storage
       /\ notices[h[t].sid].expired = 1 /\ notices[h[t].sid].swept = 0

\* C6: no destination has two snippets with no decision in the store
C6_AtMostOnePending ==
    \A dest \in Destinations :
       Cardinality(PendingIn(dest.channel, dest.thread_ts)) <= 1

\* C7: no snippet is stored for a destination that already has a pending one
C7_DuplicateProposeRejected ==
    [][ next_id' # next_id =>
          PendingIn(entries'[next_id].channel, entries'[next_id].thread_ts) = {}
      ]_vars

\* the lines from the first to the last non-blank line of a snippet text
LogicalLines(snippet_code) ==
    LET code == { i \in 1..Len(snippet_code) : snippet_code[i].kind = "code" }
        first == CHOOSE i \in code : \A j \in code : i <= j
        last == CHOOSE i \in code : \A j \in code : j <= i
    IN IF code = {} THEN 0
       ELSE SumRuns(SubSeq(snippet_code, first, last))

\* a coder flow for snippet_code, reviewed without error, that stores a snippet
Accepts(snippet_code, dest) ==
    /\ \E text \in Texts :
          HandleIncomingSlackEvent("h1", text, dest, CoderReply, snippet_code,
                                   "summary", MaxSnippets)
    /\ next_id' = next_id + 1
    /\ snippet_storage' = snippet_storage \cup {next_id}
    /\ entries'[next_id].code = snippet_code

\* a coder flow for snippet_code that does anything but post the size notice
\* and leave the store and the ids alone
NotRejected(snippet_code, dest) ==
    /\ \E text \in Texts, review \in ReviewOutcomes :
          HandleIncomingSlackEvent("h1", text, dest, CoderReply, snippet_code,
                                   review, MaxSnippets)
    /\ ~ ( /\ dest \in too_large'
           /\ UNCHANGED << snippet_storage, entries, next_id >> )

\* C8: whenever a handler is free to take a request and an id is left, a
\* snippet of exactly snippet_line_limit logical lines is stored by the coder
\* flow; one of snippet_line_limit + 1 lines is answered with the size notice
\* and leaves the store and the id counter unchanged.
C8_SizeBoundary ==
    /\ LogicalLines(ExactCode) = bot_config.snippet_line_limit
    /\ LogicalLines(OverCode) = bot_config.snippet_line_limit + 1
    /\ (~terminated /\ pc["h1"] = "idle" /\ next_id <= MaxSnippets) =>
          \A dest \in Destinations :
             /\ ENABLED Accepts(ExactCode, dest)
             /\ ~ENABLED Accepts(OverCode, dest)
             /\ ~ENABLED NotRejected(OverCode, dest)

\* C8 witness: a snippet of exactly snippet_line_limit lines is in the store
\* and a larger one was turned away
C8_Witness ==
    /\ too_large # {}
    /\ \E sid \in snippet_storage :
          /\ entries[sid].code = ExactCode
          /\ LogicalLines(entries[sid].code) = bot_config.snippet_line_limit

\* C9: expires_at of an entry never decreases
C9_ExpiresAtMonotone ==
    [][ \A sid \in DOMAIN entries \cap DOMAIN entries' :
           entries'[sid].expires_at >= entries[sid].expires_at ]_vars

\* C10: a stored snippet expires at its creation time plus the expiry window
\* plus five minutes for every extend that was confirmed to the user
C10_ExtendAddsIncrement ==
    \A sid \in snippet_storage :
       entries[sid].expires_at =
          entries[sid].start_time + bot_config.snippet_expiration_minutes
             + ExtendMinutes * notices[sid].extended

\* C11: the steps of an extend (the read of line 219, the write of line 220
\* with its message) leave snippet_storage as it is and change no field of any
\* entry but expires_at of the extended one, which becomes the value read; a
\* snippet that is in the store with no decision before the write is so after.
C11_ExtendFrame ==
    [][ \A t \in Threads :
          /\ (pc[t] = "act" /\ pc'[t] = "extend_write") =>
                UNCHANGED << snippet_storage, entries, notices, executed >>
          /\ (pc[t] = "extend_write" /\ pc'[t] = "idle") =>
                LET sid == h[t].sid IN
                /\ snippet_storage' = snippet_storage
                /\ executed' = executed
                /\ notices' = [notices EXCEPT ![sid].extended = @ + 1]
                /\ \A s \in DOMAIN entries' :
                      entries'[s] =
                         IF s = sid
                         THEN [entries[s] EXCEPT !.expires_at = h[t].new_expires]
                         ELSE entries[s]
                /\ (sid \in snippet_storage /\ entries[sid].final_decision = "None")
                      => /\ sid \in snippet_storage'
                         /\ entries'[sid].final_decision = "None"
                         /\ entries'[sid].alerted_admin = entries[sid].alerted_admin
                         /\ entries'[sid].start_time = entries[sid].start_time
                         /\ entries'[sid].code = entries[sid].code
                         /\ Destination(sid) = [channel |-> entries'[sid].channel,
                                                thread_ts |-> entries'[sid].thread_ts]
      ]_vars

\* C11 witness: an extended snippet is still in the store with no decision,
\* and the watchdog had warned about it before the extend
C11_Witness ==
    \E sid \in snippet_storage :
       /\ notices[sid].extended = 2
       /\ entries[sid].final_decision = "None"
       /\ entries[sid].alerted_admin
       /\ entries[sid].expires_at > entries[sid].start_time + ExtendMinutes

\* C12: the handler of a `cancel` or an `extend` that finds its snippet in the
\* store with now > expires_at posts the expiry notice, and no cancel or
\* extend notice, and writes no entry; its next step removes the snippet and
\* ends the handler, so that neither the cancel nor the extend branch runs.
C12_ExpiryBeforeCancelExtend ==
    [][ \A t \in Threads :
          h[t].cmd \in {"cancel", "extend"} =>
             /\ ( /\ pc[t] = "apply" /\ pc'[t] # "apply"
                  /\ h[t].sid \in snippet_storage
                  /\ now > entries[h[t].sid].expires_at )
                => /\ pc'[t] = "expired_pop"
                   /\ notices' = [notices EXCEPT ![h[t].sid].expired = @ + 1]
                   /\ UNCHANGED << entries, snippet_storage, executed >>
             /\ (pc[t] = "expired_pop" /\ pc'[t] # "expired_pop")
                => /\ pc'[t] = "idle"
                   /\ h[t].sid \notin snippet_storage'
                   /\ UNCHANGED << notices, executed >>
                   /\ h[t].sid \in DOMAIN entries' =>
                         entries'[h[t].sid] = entries[h[t].sid]
      ]_vars

\* C12 witness: a cancel and an extend have both taken the expiry branch for
\* a snippet that is still in the store
C12_Witness ==
    \E t, u \in Threads :
       /\ pc[t] = "expired_pop" /\ h[t].cmd = "cancel"
       /\ pc[u] = "expired_pop" /\ h[u].cmd = "extend"
       /\ h[t].sid = h[u].sid /\ h[t].sid \in snippet_storage
       /\ notices[h[t].sid].canceled = 0

\* the texts that are the word, give or take case and surrounding whitespace
Spelling(word) == { text \in Texts : LowerText(StripText(text)) = Text(word, FALSE, FALSE, FALSE) }

\* C13: a cancel that passed the expiry test removes its snippet and posts the
\* cancel notice, a canceled snippet is never run, and once a snippet has
\* been canceled a `confirm` for a destination with nothing pending changes
\* nothing: no entry, no id, no notice, no run.
C13_CancelThenConfirmNoOp ==
    [][ /\ \A t \in Threads :
              (pc[t] = "act" /\ h[t].cmd = "cancel" /\ pc'[t] = "idle") =>
                 /\ h[t].sid \notin snippet_storage'
                 /\ notices'[h[t].sid].canceled = notices[h[t].sid].canceled + 1
        /\ \A sid \in Allocated : notices[sid].canceled >= 1 => executed'[sid] = 0
        /\ \A dest \in Destinations, text \in Spelling("confirm"),
              gpt_reply \in ClassifierReplies, snippet_code \in Payloads,
              review \in ReviewOutcomes :
              ( /\ \E sid \in Allocated : notices[sid].canceled >= 1
                /\ PendingIn(dest.channel, dest.thread_ts) = {}
                /\ HandleIncomingSlackEvent("h1", text, dest, gpt_reply,
                                            snippet_code, review, MaxSnippets) )
              => UNCHANGED << snippet_storage, entries, next_id, executed,
                              notices, too_large >>
      ]_vars

\* C14: no snippet ever gets a second watchdog warning: alerted_admin is set
\* exactly when the one warning has been posted and is never cleared, and
\* after a watchdog pass that does not end the process every snippet in the
\* store with no decision and an age above snippet_watchdog_seconds has
\* exactly one warning.
C14_AlertFiresOnce ==
    [][ /\ \A sid \in Allocated : notices'[sid].warning <= 1
        /\ \A sid \in DOMAIN entries' :
              entries'[sid].alerted_admin <=> notices'[sid].warning = 1
        /\ \A sid \in DOMAIN entries \cap DOMAIN entries' :
              entries[sid].alerted_admin => entries'[sid].alerted_admin
        /\ (SnippetWatchdog /\ ~terminated') =>
              \A sid \in snippet_storage' :
                 ( /\ entries'[sid].final_decision = "None"
                   /\ (now - entries'[sid].start_time) * 60
                         > ConfigGet("snippet_watchdog_seconds") )
                 => notices'[sid].warning = 1
      ]_vars

\* C14 witness: a snippet warned about is still pending a minute after the
\* warning became due
C14_Witness ==
    \E sid \in snippet_storage :
       /\ ~terminated
       /\ entries[sid].final_decision = "None"
       /\ entries[sid].alerted_admin
       /\ notices[sid].warning = 1
       /\ (now - entries[sid].start_time) * 60
             >= ConfigGet("snippet_watchdog_seconds") + 120

\* the configuration sets force_bot_termination_on_snippet_freeze to v
FlagSetTo(v) ==
    /\ "force_bot_termination_on_snippet_freeze" \in DOMAIN bot_config
    /\ bot_config["force_bot_termination_on_snippet_freeze"] = v

C16_TerminationOptIn == ~FlagSetTo(TRUE) => ~terminated

\* a command for sid is being handled
CommandFor(sid) == \E t \in Threads : Handling(t) /\ h[t].sid = sid

C18_TerminalDecisionAtRemoval ==
    [][ /\ \A sid \in DOMAIN entries \cap DOMAIN entries' :
              entries[sid].final_decision # "None" =>
                 entries'[sid].final_decision = entries[sid].final_decision
        /\ \A sid \in snippet_storage \ snippet_storage' :
              \/ /\ sid \in DOMAIN entries'
                 /\ entries'[sid].final_decision \in {"confirm", "cancel", "expired"}
              \/ \E t \in Threads : h[t].sid = sid /\ CancelSnippet(t)
      ]_vars

\* the texts that spell a reserved word
ReservedTexts == Spelling("confirm") \cup Spelling("cancel") \cup Spelling("extend")

\* C19: no step is the coder flow serving a text that spells a reserved word:
\* such a text never gets to the classifier and the snippet generator,
\* whether or not a snippet is pending in its thread.
C19_ReservedNeverClassified ==
    [][ \A t \in Threads, text \in ReservedTexts, dest \in Destinations,
           snippet_code \in Payloads, review \in ReviewOutcomes :
           ~HandleIncomingSlackEvent(t, text, dest, CoderReply, snippet_code,
                                     review, MaxSnippets)
      ]_vars

\* a text with the mention of the bot, which an app_mention event puts in
\* front of what the user typed, taken off
Unmarked(text) ==
    IF text.word = "<@bot> confirm" THEN [text EXCEPT !.word = "confirm"] ELSE text

\* C20: with a snippet pending in the thread, a text is taken as a command
\* exactly when, without markup and surrounding whitespace and in lower case,
\* it is one of the three reserved words.
C20_ExactRecognition ==
    \A dest \in Destinations, text \in Texts :
       PendingIn(dest.channel, dest.thread_ts) # {} =>
          ( TypedCommandSid(text, dest) # NoSid
              <=> LowerText(StripText(Unmarked(text))) \in Commands )

\* the messages of one kind that a step adds for sid
Added(sid, kind) == notices'[sid][kind] - notices[sid][kind]

\* C21: the step that makes and runs the callable of a confirmed snippet
\* posts exactly one outcome notice: the success notice when the callable
\* was made and returned without an exception, and otherwise a failure
\* notice (the crash notice or the notice that no callable could be made)
\* and no success notice.
C21_OneOutcomeNotice ==
    [][ \A t \in Threads, c \in SnippetCallables :
           RunSnippet(t, c) =>
              IF c.made /\ ~c.raises
              THEN /\ Added(h[t].sid, "success") = 1
                   /\ Added(h[t].sid, "crashed") + Added(h[t].sid, "failed") = 0
              ELSE /\ Added(h[t].sid, "success") = 0
                   /\ Added(h[t].sid, "crashed") + Added(h[t].sid, "failed") = 1
      ]_vars

\* C22: when the callable cannot be made or raises, the running step posts
\* one failure notice, no exception leaves the handler, the process is not
\* ended, and the store is as it was.
C22_FailureContained ==
    [][ \A t \in Threads, c \in SnippetCallables :
           (RunSnippet(t, c) /\ (~c.made \/ c.raises)) =>
              /\ Added(h[t].sid, "crashed") + Added(h[t].sid, "failed") = 1
              /\ raised' = raised
              /\ ~terminated'
              /\ snippet_storage' = snippet_storage
      ]_vars

\* C23: a callable that printed has its output posted, and posted before the
\* outcome notice, whether it returned or raised.
C23_OutputBeforeOutcome ==
    [][ \A t \in Threads, c \in SnippetCallables :
           (RunSnippet(t, c) /\ c.made /\ c.prints) =>
              /\ Added(h[t].sid, "output") = 1
              /\ LET posts == RunSnippetNow(c).posts
                 IN /\ Len(posts) = 2
                    /\ posts[1] = "output"
                    /\ posts[2] = (IF c.raises THEN "crashed" ELSE "success")
      ]_vars

\* the snippets whose callable a handler is making or running
Executing == { h[t].sid : t \in { u \in Threads : pc[u] = "run" } }

\* C24: from the step that begins the execution of a snippet on, its id is
\* not in the store; while it executes, no pass of the reaper or of the
\* watchdog posts anything about it, a pass that ends the process does so
\* for a snippet that is still in the store, and both daemons stay able to
\* make their passes over what the store holds.
C24_ExecutingLeftStore ==
    [][ /\ \A sid \in Executing : sid \notin snippet_storage
        /\ \A t \in Threads :
              pc'[t] = "run" => h'[t].sid \notin snippet_storage'
        /\ (CleanupExpiredSnippets \/ SnippetWatchdog) =>
              /\ \A sid \in Executing : notices'[sid] = notices[sid]
              /\ (terminated' /\ ~terminated) =>
                    \E k \in snippet_storage \ Executing :
                       entries[k].final_decision = "None" /\ KillDue(now, k)
        /\ (Executing # {} /\ snippet_storage # {} /\ ~terminated) =>
              /\ ENABLED CleanupExpiredSnippets
              /\ ENABLED SnippetWatchdog
      ]_vars

\* C24 witness: a snippet executes past its deadline with no expiry notice
\* and no warning, while the watchdog has warned about another snippet that
\* is still in the store
C24_Witness ==
    \E t \in Threads :
       /\ pc[t] = "run"
       /\ h[t].sid \notin snippet_storage
       /\ now > entries[h[t].sid].expires_at
       /\ ExpiryNotices(h[t].sid) = 0
       /\ notices[h[t].sid].warning = 0
       /\ \E k \in snippet_storage : notices[k].warning = 1

\* C25: a request whose classification fails - the call raises, the content
\* is no JSON or no object, the request type is missing or unknown, or the
\* extra_data is unusable - is dispatched to the asktheworld flow, and the
\* step that handles it stores no snippet, hands out no id and posts no
\* notice about a snippet.
C25_FailedClassificationFallsBack ==
    [][ \A gpt_reply \in FailedReplies :
           LET classification == HandleClassification(ClassifyChat(gpt_reply)) IN
           /\ Flow(classification.request_type) = "asktheworld"
           /\ ( /\ classifier_conversation' = classification.assistant
                /\ pc' = pc
                /\ \E t \in Threads, text \in Texts, dest \in Destinations,
                      coder_reply \in CoderReplies, review \in ReviewOutcomes :
                      HandleIncomingSlackEvent(t, text, dest, gpt_reply,
                                               GenerateSnippet(coder_reply),
                                               review, MaxRaced) )
              => UNCHANGED << snippet_storage, entries, next_id, executed,
                              notices, too_large >>
      ]_vars

\* C25 witness: the classifier has fallen back on an unusable reply and no
\* snippet was ever stored
C25_Witness ==
    /\ classifier_conversation = ErrorFallback.assistant
    /\ next_id = 1
    /\ snippet_storage = {}

C27_EscalationLogged ==
    /\ terminated <=> log # {}
    /\ \A rec \in log :
          /\ {"sid", "age", "channel", "thread_ts"} \subseteq DOMAIN rec
          /\ rec.sid \in Allocated

\* C28: a command is handed to _apply_typed_action with a snippet that is
\* pending in the command's thread and whose start_time no other pending
\* snippet of that thread exceeds, and it is the one the scan yields in that
\* state; no step of the handler that serves the command removes or changes
\* any other entry of the store.
C28_LatestPendingChosen ==
    [][ \A t \in Threads :
          /\ (pc[t] = "idle" /\ pc'[t] = "apply") =>
                LET P == PendingIn(h'[t].channel, h'[t].thread_ts) IN
                /\ h'[t].sid \in P
                /\ h'[t].sid = BestSid(h'[t].channel, h'[t].thread_ts)
                /\ \A o \in P :
                      entries[o].start_time <= entries[h'[t].sid].start_time
          /\ (pc[t] # "idle" /\ pc'[t] # pc[t]) =>
                \A o \in snippet_storage \ {h[t].sid} :
                   /\ o \in snippet_storage'
                   /\ entries'[o] = entries[o]
      ]_vars

\* C28 witness: of two snippets pending in one thread the later one was
\* confirmed and is being run; the earlier one is still pending in the store
C28_Witness ==
    \E t \in Threads, o \in snippet_storage :
       /\ pc[t] = "run"
       /\ o # h[t].sid
       /\ Destination(o) = Destination(h[t].sid)
       /\ entries[o].start_time < entries[h[t].sid].start_time
       /\ entries[o].final_decision = "None"
       /\ entries[h[t].sid].final_decision = "confirm"

\* the texts generate_snippet can return
Generated == { GenerateSnippet(coder_reply) : coder_reply \in CoderReplies }

\* C29: the code stored with a proposal is the text generate_snippet
\* returned, whitespace included; the code of an entry never changes; and
\* the text handed to create_snippet_callable on confirm is the code of the
\* entry, hence a text the generator returned.
C29_PayloadUnchanged ==
    [][ /\ pc' = pc =>
              \A t \in Threads, text \in Texts, dest \in Destinations,
                 coder_reply \in CoderReplies :
                 ( /\ next_id' = next_id + 1
                   /\ HandleIncomingSlackEvent(t, text, dest, CoderReply,
                                               GenerateSnippet(coder_reply),
                                               "summary", MaxRaced) )
                 => entries'[next_id].code = GenerateSnippet(coder_reply)
        /\ \A sid \in DOMAIN entries \cap DOMAIN entries' :
              entries'[sid].code = entries[sid].code
        /\ \A r \in ran' \ ran :
              /\ r.sid \in DOMAIN entries
              /\ r.code = entries[r.sid].code
              /\ r.code \in Generated
      ]_vars

\* C29 witness: a snippet text that ends with a blank line was run, and what
\* the executor was handed still has that line
C29_Witness ==
    \E r \in ran :
       /\ executed[r.sid] = 1
       /\ r.code = ExactCode
       /\ StripCode(r.code) # r.code

\* thread t completes an accepted confirm or cancel of sid in this step
Accepted(t, sid) ==
    /\ pc[t] = "act"
    /\ h[t].sid = sid
    /\ h[t].cmd \in {"confirm", "cancel"}
    /\ pc'[t] # "act"

\* thread t pops sid in the expiry branch in this step
ExpiryBranch(t, sid) ==
    /\ pc[t] = "expired_pop"
    /\ h[t].sid = sid
    /\ pc'[t] = "idle"

\* C30: an entry with no decision whose deadline has not passed leaves the
\* store only in the step of an accepted confirm or cancel of it; an entry
\* that leaves the store in any other step is past its deadline and leaves
\* in a pass of the reaper or in the expiry branch of a late command; no
\* pass of the watchdog removes an entry.
C30_UnexpiredRemovedByCommandOnly ==
    [][ /\ \A sid \in snippet_storage \ snippet_storage' :
              IF entries[sid].final_decision = "None" /\ ~IsExpired(now, sid)
              THEN \E t \in Threads : Accepted(t, sid)
              ELSE \/ \E t \in Threads : Accepted(t, sid) \/ ExpiryBranch(t, sid)
                   \/ pc' = pc /\ IsExpired(now, sid)
        /\ (pc' = pc /\ snippet_storage' # snippet_storage) =>
              \A sid \in snippet_storage \ snippet_storage' : IsExpired(now, sid)
      ]_vars

\* C32: the step that posts "expiration extended" for a snippet on which no
\* confirm or cancel was decided leaves the snippet in the store with the
\* deadline the notice announces, and no expiry notice has been posted for it.
C32_ExtendConfirmedOnlyInStore ==
    [][ \A t \in Threads :
           ( /\ pc[t] = "extend_write"
             /\ pc'[t] = "idle"
             /\ entries[h[t].sid].final_decision = "None" ) =>
              /\ Added(h[t].sid, "extended") = 1
              /\ h[t].sid \in snippet_storage'
              /\ entries'[h[t].sid].expires_at = h[t].new_expires
              /\ ExpiryNotices(h[t].sid) = 0
      ]_vars

\* C33: start_time of an entry never changes; the age the watchdog compares
\* with its two thresholds is the time since start_time; and the step that
\* writes an extended deadline changes neither that age nor the outcome of
\* the termination test.
C33_AgeFromStartTime ==
    [][ \A sid \in DOMAIN entries \cap DOMAIN entries' :
          /\ entries'[sid].start_time = entries[sid].start_time
          /\ AgeSeconds(now, sid) = (now - entries[sid].start_time) * 60
          /\ (\E t \in Threads : pc[t] = "extend_write" /\ h[t].sid = sid
                                  /\ pc'[t] = "idle") =>
                /\ entries'[sid].expires_at = h[CHOOSE t \in Threads :
                                                   /\ pc[t] = "extend_write"
                                                   /\ h[t].sid = sid
                                                   /\ pc'[t] = "idle"].new_expires
                /\ AgeSeconds(now, sid)' = AgeSeconds(now, sid)
                /\ KillDue(now, sid)' = KillDue(now, sid)
                /\ entries'[sid].alerted_admin = entries[sid].alerted_admin
      ]_vars

\* C33 witness: the process was ended on account of a snippet that had been
\* extended and whose deadline had not passed
C33_Witness ==
    /\ terminated
    /\ \E sid \in snippet_storage :
          /\ notices[sid].extended >= 1
          /\ ~IsExpired(now, sid)
          /\ notices[sid].warning = 1
          /\ KillDue(now, sid)

\* C34: the snippet a command is handed to _apply_typed_action with has the
\* channel and the thread of the command; every step of the handler that
\* serves the command leaves each entry of another destination in the store
\* and unchanged, and posts nothing about it.
C34_OtherDestinationsUntouched ==
    [][ \A t \in Threads :
          /\ (pc[t] = "idle" /\ pc'[t] = "apply") =>
                /\ entries[h'[t].sid].channel = h'[t].channel
                /\ entries[h'[t].sid].thread_ts = h'[t].thread_ts
          /\ (pc[t] # "idle" /\ pc'[t] # pc[t]) =>
                \A o \in snippet_storage :
                   Destination(o) # [channel |-> h[t].channel,
                                     thread_ts |-> h[t].thread_ts] =>
                      /\ o \in snippet_storage'
                      /\ entries'[o] = entries[o]
                      /\ notices'[o] = notices[o]
      ]_vars

\* C34 witness: snippets are pending in two threads of one channel, and a
\* command typed in one of the threads is about to act on that thread's
\* snippet
C34_Witness ==
    \E t \in Threads, o \in snippet_storage :
       /\ pc[t] = "act"
       /\ h[t].sid \in snippet_storage
       /\ entries[o].channel = h[t].channel
       /\ entries[o].thread_ts # h[t].thread_ts
       /\ entries[o].final_decision = "None"
       /\ entries[o].start_time > entries[h[t].sid].start_time

\* C36: when snippet_watchdog_seconds is not greater than
\* admin_watchdog_timeout_seconds, a watchdog pass that ends the process
\* leaves the snippet it ends the process for with alerted_admin set and
\* with its one warning posted, in that pass at the latest.
C36_WarnedBeforeTermination ==
    [][ ( /\ ConfigGet("snippet_watchdog_seconds")
                <= ConfigGet("admin_watchdog_timeout_seconds")
          /\ terminated' /\ ~terminated ) =>
            \E sid \in snippet_storage :
               /\ entries[sid].final_decision = "None"
               /\ KillDue(now, sid)
               /\ log' = log \cup {EscalationRecord(sid)}
               /\ entries'[sid].alerted_admin
               /\ notices'[sid].warning = 1
      ]_vars

\* C36 witness: the process was ended, in the first minute in which the
\* termination test can succeed, for a snippet that has its one warning
C36_Witness ==
    /\ terminated
    /\ \E sid \in snippet_storage :
          /\ KillDue(now, sid)
          /\ entries[sid].alerted_admin
          /\ notices[sid].warning = 1
          /\ AgeSeconds(now, sid) = ConfigGet("admin_watchdog_timeout_seconds") + 60

\* C31: under every interleaving of a watchdog pass with the handlers and
\* the reaper, the watchdog posts a warning only for a snippet that is in the
\* store and has no final decision at the moment of the post.
C31_WarningOnlyForStoredPending ==
    [][ \A sid \in Allocated :
          notices'[sid].warning > notices[sid].warning
             => /\ sid \in snippet_storage
                /\ entries[sid].final_decision = "None" ]_vars

\* C37: whenever no call of run_snippet_now is in progress, sys.stdout is the
\* stream that was installed before the first call started.
C37_StdoutRestored ==
    (\A t \in Threads : runner[t].pc = "idle") => sys_stdout = OriginalStdout

\* C38: every event id is handed to the bot engine at most once, however
\* its deliveries are interleaved.
C38_DispatchedAtMostOnce ==
    \A event_id \in EventIds : dispatched[event_id] <= 1

\* C39: a merge into main happens only in the step that approves an upgrade
\* in status pending_admin_approval, and the approver is an admin who is not
\* the requester.
C39_MergedAfterOtherAdminApproved ==
    [][ \A m \in merged' \ merged :
          /\ StatusOf(m.requester) = "pending_admin_approval"
          /\ m.approver \in ADMIN_USER_IDS
          /\ m.approver # m.requester ]_vars

\* C35: under the shipped configuration a pending snippet that was never
\* extended is in the store for at most the expiry window and the minute of
\* the reaper's next pass, which is short of the hard timeout, so the
\* watchdog's termination test fails for it; the process is ended only for
\* a snippet whose expiry was extended more than once.
C35_NeverExtendedReapedFirst ==
    /\ \A sid \in snippet_storage :
          ( /\ entries[sid].final_decision = "None"
            /\ entries[sid].expires_at =
                  entries[sid].start_time + ConfigGet("snippet_expiration_minutes") )
          => /\ AgeSeconds(now, sid)
                  <= (ConfigGet("snippet_expiration_minutes") + 1) * 60
             /\ AgeSeconds(now, sid) < ConfigGet("admin_watchdog_timeout_seconds")
             /\ ~KillDue(now, sid)
    /\ \A record \in log :
          /\ notices[record.sid].extended > 1
          /\ entries[record.sid].expires_at >
                entries[record.sid].start_time
                   + ConfigGet("snippet_expiration_minutes") + ExtendMinutes

\* C35 witness: under the shipped configuration the reaper has removed a
\* snippet that nobody extended or decided, six minutes after its proposal
C35_Witness ==
    /\ bot_config = DefaultConfig
    /\ now = ConfigGet("snippet_expiration_minutes") + 1
    /\ \E sid \in Allocated :
          /\ sid \notin snippet_storage
          /\ notices[sid].swept = 1
          /\ notices[sid].extended = 0
          /\ notices[sid].warning = 1
          /\ ~terminated

====
